---- MODULE Spec2Model ----
(***************************************************************************)
(* symtool (src/symtool/src/main.rs): the `update` subcommand, the         *)
(* `extract` scan loop and the map-line parser `line_symaddr`.             *)
(*                                                                         *)
(* Text is a sequence of bytes.  An ASCII byte is the one-character string *)
(* of its character.  The input alphabet holds two non-ASCII characters,   *)
(* each two bytes long in UTF-8: U+00B2 (superscript two, bytes C2 B2, for *)
(* which char::is_numeric is true) and U+00E9 (e acute, bytes C3 A9).      *)
(* Byte offsets are 0-based as in the source; the byte at offset p of s is *)
(* s[p+1].  A character is identified by its first byte.                   *)
(*                                                                         *)
(* A u32 is the record [hi, lo] of its two 16-bit halves: the values of    *)
(* the address window lie above the largest signed 32-bit integer.         *)
(***************************************************************************)
EXTENDS Integers, Sequences, FiniteSets, TLC

VARIABLES
    file,       \* update: content of the map file on disk
    piped,      \* update: the lines piped to standard input
    pc,         \* update: position in update()
    updates,    \* update: HashMap<u32, String>
    mapfile,    \* update: the String buffer being rewritten
    orig,       \* update: the text read_to_string returned (history)
    i,          \* update: end of the unprocessed prefix
    printed,    \* update: the `old -> new` lines printed, as pairs
    edits,      \* update: the replace_range calls made, in order
    rerun,      \* update: this invocation follows one with the same input
    prev,       \* update: the text the invocation before this one read (history)
    src,        \* extract: text of the file being scanned
    pos,        \* extract: src_iter.offset()
    out,        \* extract: the symbols written to stdout
    epc,        \* extract: position in the scan loop
    pline,      \* parser: the line handed to line_symaddr
    pres,       \* parser: what line_symaddr returned
    ppc         \* parser: "call" before the call, "ret" after it

vars == <<file, piped, pc, updates, mapfile, orig, i, printed, edits, rerun, prev,
          src, pos, out, epc, pline, pres, ppc>>

updateVars == <<file, piped, pc, updates, mapfile, orig, i, printed, edits, rerun,
                prev>>
extractVars == <<src, pos, out, epc>>
parseVars == <<pline, pres, ppc>>

----------------------------------------------------------------------------
(* Bounds of the model *)

MaxLines == 3       \* lines of a map file
MaxPiped == 2       \* lines piped to update
MaxTokens == 4      \* tokens of a line handed to the parser
MaxSrcTokens == 4   \* tokens of a source text handed to the extractor

----------------------------------------------------------------------------
(* Character classes *)

Digit == {"0", "1", "2", "3", "4", "5", "6", "7", "8", "9"}
HexLower == {"a", "b", "c", "d", "e", "f"}
HexUpper == {"A", "B", "C", "D", "E", "F"}
Lower == {"a", "b", "c", "d", "e", "f", "g", "h", "i", "j", "k", "l", "m",
          "n", "o", "p", "q", "r", "s", "t", "u", "v", "w", "x", "y", "z"}
Upper == {"A", "B", "C", "D", "E", "F", "G", "H", "I", "J", "K", "L", "M",
          "N", "O", "P", "Q", "R", "S", "T", "U", "V", "W", "X", "Y", "Z"}
Punct == {" ", "\t", "\n", "\r", "\f", "(", ")", "*", "_", ";", "-", ">"}
Lead2 == {"C2", "C3"}       \* first bytes of the two-byte characters
Chars == Digit \cup Lower \cup Upper \cup Punct \cup Lead2

is_ascii_alphabetic(c) == c \in Lower \cup Upper
is_ascii_alphanumeric(c) == c \in Lower \cup Upper \cup Digit
is_ascii_hexdigit(c) == c \in Digit \cup HexLower \cup HexUpper
is_ascii_whitespace(c) == c \in {" ", "\t", "\n", "\f", "\r"}
is_numeric(c) == c \in Digit \cup {"C2"}

\* len_utf8 of the character whose first byte is b
Width(b) == IF b \in Lead2 THEN 2 ELSE 1

----------------------------------------------------------------------------
(* u32 arithmetic of the address window *)

Pow16 == 65536

U32(h, l) == [hi |-> h, lo |-> l]

Zero32 == U32(0, 0)

\* (v << 4) | n on 32 bits, n < 16
ShlOr(v, n) == U32((v.hi * 16 + (v.lo \div 4096)) % Pow16, (v.lo % 4096) * 16 + n)

\* a <= b and a < b on u32
Le32(a, b) == a.hi < b.hi \/ (a.hi = b.hi /\ a.lo <= b.lo)
Lt32(a, b) == a.hi < b.hi \/ (a.hi = b.hi /\ a.lo < b.lo)

AddrLow == U32(32768, 0)      \* 0x80000000
AddrHigh == U32(33152, 0)     \* 0x81800000

----------------------------------------------------------------------------
(* line_symaddr *)

None == [some |-> FALSE]

\* the value of one hexadecimal digit byte, -1 for any other byte
HexDigitValue(b) ==
    CASE b \in Digit -> CHOOSE n \in 0..9 :
                            b = <<"0", "1", "2", "3", "4", "5", "6", "7", "8", "9">>[n + 1]
      [] b \in HexLower -> CHOOSE n \in 10..15 :
                            b = <<"a", "b", "c", "d", "e", "f">>[n - 9]
      [] b \in HexUpper -> CHOOSE n \in 10..15 :
                            b = <<"A", "B", "C", "D", "E", "F">>[n - 9]
      [] OTHER -> -1

\* the inner loop over the 8 bytes of the window at offset w: k bytes are
\* folded into cur_addr; a byte that is no hex digit abandons the window
RECURSIVE WindowValue(_, _, _, _)
WindowValue(line, w, k, cur_addr) ==
    IF k = 8 THEN [ok |-> TRUE, value |-> cur_addr]
    ELSE LET n == HexDigitValue(line[w + k + 1])
         IN  IF n = -1 THEN [ok |-> FALSE, value |-> Zero32]
             ELSE WindowValue(line, w, k + 1, ShlOr(cur_addr, n))

\* FindAddr with the upper end of the address window included
RECURSIVE FindAddr_inclusive(_, _)
FindAddr_inclusive(line, w) ==
    IF w + 8 > Len(line) THEN [addr |-> Zero32, addr_start |-> 0]
    ELSE LET win == WindowValue(line, w, 0, Zero32)
         IN  IF win.ok /\ Le32(AddrLow, win.value) /\ Le32(win.value, AddrHigh)
             THEN [addr |-> win.value, addr_start |-> w]
             ELSE FindAddr_inclusive(line, w + 1)

\* the loop over line.as_bytes().windows(8), from the window at offset w
RECURSIVE FindAddr(_, _)
FindAddr(line, w) ==
    IF w + 8 > Len(line) THEN [addr |-> Zero32, addr_start |-> 0]
    ELSE LET win == WindowValue(line, w, 0, Zero32)
         IN  IF win.ok /\ Le32(AddrLow, win.value) /\ Lt32(win.value, AddrHigh)
             THEN [addr |-> win.value, addr_start |-> w]
             ELSE FindAddr(line, w + 1)

\* FindStart with a hex-skip loop that leaves the character ending it unread
RECURSIVE FindStart_peek(_, _, _)
FindStart_peek(line, p, hex) ==
    IF p >= Len(line) THEN -1
    ELSE LET c == line[p + 1]
             nxt == p + Width(c)
         IN  IF hex
             THEN IF ~is_ascii_hexdigit(c) THEN FindStart_peek(line, p, FALSE)
                  ELSE FindStart_peek(line, nxt, TRUE)
             ELSE IF is_numeric(c) THEN FindStart_peek(line, nxt, TRUE)
                  ELSE IF is_ascii_alphabetic(c) \/ c = "_" THEN p
                  ELSE FindStart_peek(line, nxt, FALSE)

\* the labelled loop 'find_start_i with chars at offset p: hex is FALSE in
\* the first inner loop, TRUE in the loop that skips hex digits.  -1 stands
\* for `return None`.
RECURSIVE FindStart(_, _, _)
FindStart(line, p, hex) ==
    IF p >= Len(line) THEN -1
    ELSE LET c == line[p + 1]
             nxt == p + Width(c)
         IN  IF hex
             THEN IF ~is_ascii_hexdigit(c) THEN FindStart(line, nxt, FALSE)
                  ELSE FindStart(line, nxt, TRUE)
             ELSE IF is_numeric(c) THEN FindStart(line, nxt, TRUE)
                  ELSE IF is_ascii_alphabetic(c) \/ c = "_" THEN p
                  ELSE FindStart(line, nxt, FALSE)

\* FindEnd with a symbol that ends at the first digit
RECURSIVE FindEnd_alpha(_, _)
FindEnd_alpha(line, p) ==
    IF p >= Len(line) THEN Len(line)
    ELSE LET c == line[p + 1]
         IN  IF is_ascii_alphabetic(c) \/ c = "_" THEN FindEnd_alpha(line, p + Width(c))
             ELSE p

\* the loop that finds end_i, with chars at offset p
RECURSIVE FindEnd(_, _)
FindEnd(line, p) ==
    IF p >= Len(line) THEN Len(line)
    ELSE LET c == line[p + 1]
         IN  IF is_ascii_alphanumeric(c) \/ c = "_" THEN FindEnd(line, p + Width(c))
             ELSE p

\* &line[r.start..r.end]
Slice(s, from, to) == SubSeq(s, from + 1, to)

line_symaddr(line) ==
    LET a == FindAddr(line, 0)
    IN  IF a.addr = Zero32 THEN None
        ELSE LET start_i == FindStart(line, 0, FALSE)
             IN  IF start_i = -1 THEN None
                 ELSE LET end_i == FindEnd(line, start_i + Width(line[start_i + 1]))
                      IN  [some |-> TRUE,
                           addr |-> a.addr,
                           addr_range |-> [start |-> a.addr_start, end |-> a.addr_start + 8],
                           symbol |-> Slice(line, start_i, end_i),
                           symbol_range |-> [start |-> start_i, end |-> end_i]]

----------------------------------------------------------------------------
(* Texts *)

RECURSIVE Concat(_)
Concat(ss) == IF ss = <<>> THEN <<>> ELSE Head(ss) \o Concat(Tail(ss))

SeqsUpTo(S, n) == UNION {[1..k -> S] : k \in 0..n}

\* pieces of which the lines handed to the parser are made
T_8001 == <<"8", "0", "0", "1", "0", "0", "0", "0">>
T_8000 == <<"8", "0", "0", "0", "0", "0", "0", "0">>
T_7FFF == <<"7", "F", "F", "F", "F", "F", "F", "F">>
T_8180 == <<"8", "1", "8", "0", "0", "0", "0", "0">>
T_817f == <<"8", "1", "7", "f", "f", "f", "f", "F">>
T_0x == <<"0", "x">>
T_sp == <<" ">>
T_foo == <<"f", "o", "o">>
T_tag == <<" ", "t", "a", "g">>
T_us == <<"_">>
T_g1 == <<"g", "1">>
T_sup2 == <<"C2", "B2">>
T_eacute == <<"C3", "A9">>

W_new_name == <<"n", "e", "w", "_", "n", "a", "m", "e">>
W_old_name == <<"o", "l", "d", "_", "n", "a", "m", "e">>
W_my_symbol_name == <<"m", "y", "_", "s", "y", "m", "b", "o", "l", "_", "n", "a", "m", "e">>

\* the lines of the documented examples
E_map == T_8001 \o T_sp \o W_my_symbol_name      \* "80010000 my_symbol_name"
E_piped == W_new_name \o T_sp \o T_8001          \* "new_name 80010000"
E_7FFF == T_7FFF \o T_tag                        \* "7FFFFFFF tag"
E_8180 == T_8180 \o T_tag                        \* "81800000 tag"
E_8000 == T_8000 \o T_tag                        \* "80000000 tag"
E_0x == T_0x \o T_8001 \o T_sp \o T_foo           \* "0x80010000 foo"

ParseTokens == {T_8001, T_7FFF, T_8180, T_817f, T_0x, T_sp, T_foo, T_us, T_g1,
                T_sup2, T_eacute}

ParseLines == {Concat(ts) : ts \in SeqsUpTo(ParseTokens, MaxTokens)}
                  \cup {E_map, E_piped, E_7FFF, E_8180, E_8000, E_0x}

----------------------------------------------------------------------------
(* The parser applied to one line *)

InitIdleUpdate ==
    /\ file = <<>> /\ piped = <<>> /\ pc = "idle" /\ updates = <<>>
    /\ mapfile = <<>> /\ orig = <<>> /\ i = 0 /\ printed = <<>> /\ edits = <<>>
    /\ rerun = FALSE /\ prev = <<>>

InitIdleExtract == src = <<>> /\ pos = 0 /\ out = <<>> /\ epc = "idle"

InitIdleParse == pline = <<>> /\ pres = None /\ ppc = "idle"

InitParse ==
    /\ pline \in ParseLines
    /\ pres = None
    /\ ppc = "call"
    /\ InitIdleUpdate /\ InitIdleExtract

Parse ==
    /\ ppc = "call"
    /\ pres' = line_symaddr(pline)
    /\ ppc' = "ret"
    /\ UNCHANGED <<pline, updateVars, extractVars>>

NextParse == Parse

SpecParse == InitParse /\ [][NextParse]_vars

----------------------------------------------------------------------------
(* update: the rename table, the backward scan of the map file, the write *)

\* HashMap::insert
Insert(m, k, v) == [x \in DOMAIN m \cup {k} |-> IF x = k THEN v ELSE m[x]]

\* the loop over stdin.lines() from the k-th line on, with the table m
RECURSIVE read_stdin(_, _, _)
read_stdin(ls, k, m) ==
    IF k > Len(ls) THEN m
    ELSE LET info == line_symaddr(ls[k])
         IN  IF info.some THEN read_stdin(ls, k + 1, Insert(m, info.addr, info.symbol))
             ELSE read_stdin(ls, k + 1, m)

\* mapfile[..i].rsplit_once('\n'): the offset of the last newline of s[..n],
\* -1 for None; the line is then s[that offset + 1 .. n].  scan[j] searches
\* s[..j] from its end.
rsplit_once(s, n) ==
    LET scan[j \in 0..n] ==
            IF j = 0 THEN -1
            ELSE IF s[j] = "\n" THEN j - 1
            ELSE scan[j - 1]
    IN  scan[n]

\* sym_range with the offset of the line left out
sym_range_inline(line_start, range) == range

\* (line_start+range.start)..(line_start+range.end)
sym_range(line_start, range) ==
    [start |-> line_start + range.start, end |-> line_start + range.end]

\* old_symbol read at the range within the line, not within the file
old_symbol_inline(s, line_start, range) == Slice(s, range.start, range.end)

\* &mapfile[sym_range.clone()], the text printed left of the arrow
old_symbol(s, line_start, range) ==
    LET r == sym_range(line_start, range) IN Slice(s, r.start, r.end)

\* replace_range that removes one byte more than the range
replace_range_wide(s, r, t) ==
    SubSeq(s, 1, r.start) \o t \o SubSeq(s, r.end + 2, Len(s))

\* replace_range that inserts the text and removes nothing
replace_range_insert(s, r, t) ==
    SubSeq(s, 1, r.start) \o t \o SubSeq(s, r.start + 1, Len(s))

\* String::replace_range
replace_range(s, r, t) ==
    SubSeq(s, 1, r.start) \o t \o SubSeq(s, r.end + 1, Len(s))

W_old == <<"o", "l", "d">>
W_bbbb == <<"b", "b", "b", "b">>
W_zz == <<"z", "z">>
T_8002 == <<"8", "0", "0", "2", "0", "0", "0", "0">>
W_a8002 == <<"a">> \o T_8002
NL == <<"\n">>

\* lines of a map file
M_ex == T_8001 \o T_sp \o W_old_name        \* "80010000 old_name"
M_old == W_old \o T_sp \o T_8001            \* "old 80010000"
M_b == T_8002 \o T_sp \o W_bbbb             \* "80020000 bbbb"
M_empty == <<>>

MapLines == {M_ex, M_old, M_b, M_empty, E_7FFF}

\* lines piped to update
P_hex == T_8001 \o T_sp \o W_a8002          \* "80010000 a80020000"
P_zz == W_zz \o T_sp \o T_8002              \* "zz 80020000"
P_junk == <<"j", "u", "n", "k">>

PipedLines == {E_piped, P_hex, P_zz}

\* the lines ls joined by newlines
RECURSIVE Join(_)
Join(ls) ==
    IF Len(ls) = 0 THEN <<>>
    ELSE IF Len(ls) = 1 THEN ls[1]
    ELSE ls[1] \o NL \o Join(Tail(ls))

\* a map file ends with a newline when its last line is the empty one
MapFiles == {Join(ls) : ls \in SeqsUpTo(MapLines, MaxLines) \ {<<>>}}

\* the piped input: up to MaxPiped lines with an address, or one of three
\* inputs with a line that has none
PipedInputs == SeqsUpTo(PipedLines, MaxPiped)
                   \cup {<<P_junk>>, <<P_junk, P_zz>>, <<E_piped, P_junk>>}

Init ==
    /\ file \in MapFiles
    /\ piped \in PipedInputs
    /\ pc = "start"
    /\ updates = <<>>
    /\ mapfile = <<>>
    /\ orig = <<>>
    /\ i = 0
    /\ printed = <<>>
    /\ edits = <<>>
    /\ rerun = FALSE
    /\ prev = <<>>
    /\ InitIdleExtract /\ InitIdleParse

\* update() up to the scan: the map file is read, the table is built from
\* the piped lines, and an empty table ends the command
UpdateBegin ==
    /\ pc = "start"
    /\ mapfile' = file
    /\ orig' = file
    /\ updates' = read_stdin(piped, 1, <<>>)
    /\ printed' = <<>>
    /\ edits' = <<>>
    /\ IF DOMAIN updates' = {}
       THEN pc' = "done" /\ i' = 0
       ELSE pc' = "scan" /\ i' = Len(file)
    /\ UNCHANGED <<file, piped, rerun, prev, extractVars, parseVars>>

\* one iteration of the `while let` loop
UpdateLine ==
    /\ pc = "scan"
    /\ rsplit_once(mapfile, i) # -1
    /\ LET line == Slice(mapfile, rsplit_once(mapfile, i) + 1, i)
           line_start == i - Len(line)
           info == line_symaddr(line)
           hit == info.some /\ info.addr \in DOMAIN updates
       IN  /\ IF hit
              THEN LET new_symbol == updates[info.addr]
                   IN  /\ printed' = Append(printed,
                              <<old_symbol(mapfile, line_start, info.symbol_range),
                                new_symbol>>)
                       /\ mapfile' = replace_range(mapfile,
                              sym_range(line_start, info.symbol_range), new_symbol)
                       /\ edits' = Append(edits,
                              [line_start |-> line_start,
                               range |-> sym_range(line_start, info.symbol_range),
                               text |-> new_symbol])
              ELSE UNCHANGED <<printed, mapfile, edits>>
           /\ IF line_start # 0
              THEN i' = line_start - 1 /\ pc' = "scan"
              ELSE i' = line_start /\ pc' = "write"
    /\ UNCHANGED <<file, piped, updates, orig, rerun, prev, extractVars, parseVars>>

\* the `while let` pattern does not match: no newline in mapfile[..i]
UpdateScanEnd ==
    /\ pc = "scan"
    /\ rsplit_once(mapfile, i) = -1
    /\ pc' = "write"
    /\ UNCHANGED <<file, piped, updates, mapfile, orig, i, printed, edits, rerun, prev,
                   extractVars, parseVars>>

\* std::fs::write(mapfile_path, &mapfile)
UpdateWrite ==
    /\ pc = "write"
    /\ file' = mapfile
    /\ pc' = "done"
    /\ UNCHANGED <<piped, updates, mapfile, orig, i, printed, edits, rerun, prev,
                   extractVars, parseVars>>

\* the command is run once more on the same map file with the same piped lines
UpdateAgain ==
    /\ pc = "done"
    /\ ~rerun
    /\ rerun' = TRUE
    /\ prev' = orig
    /\ pc' = "start"
    /\ updates' = <<>>
    /\ mapfile' = <<>>
    /\ orig' = <<>>
    /\ i' = 0
    /\ printed' = <<>>
    /\ edits' = <<>>
    /\ UNCHANGED <<file, piped, extractVars, parseVars>>

Next == UpdateBegin \/ UpdateLine \/ UpdateScanEnd \/ UpdateWrite \/ UpdateAgain

Spec == Init /\ [][Next]_vars

----------------------------------------------------------------------------
(* Properties of update *)

\* the offset of the first newline of s at or behind offset p, Len(s) if none
NextNewline(s, p) ==
    LET find[q \in p..Len(s)] ==
            IF q = Len(s) \/ s[q + 1] = "\n" THEN q ELSE find[q + 1]
    IN  find[p]

\* the line of s that starts at offset p
LineAt(s, p) == Slice(s, p, NextNewline(s, p))

\* the offsets at which the lines of s start
LineStarts(s) == {0} \cup {q + 1 : q \in {r \in 0..(Len(s) - 1) : s[r + 1] = "\n"}}

\* the lines of s, in order: s split at its newlines
RECURSIVE SplitFrom(_, _)
SplitFrom(s, p) ==
    IF NextNewline(s, p) = Len(s) THEN <<Slice(s, p, Len(s))>>
    ELSE <<LineAt(s, p)>> \o SplitFrom(s, NextNewline(s, p) + 1)

SplitLines(s) == SplitFrom(s, 0)

\* the parser finds on line l an address that is a key of the rename table
Keyed(l) == LET info == line_symaddr(l) IN info.some /\ info.addr \in DOMAIN updates

\* line l with its parsed symbol replaced by the table's name for its address
Renamed(l) ==
    LET info == line_symaddr(l)
    IN  SubSeq(l, 1, info.symbol_range.start) \o updates[info.addr]
            \o SubSeq(l, info.symbol_range.end + 1, Len(l))

\* C1: after update with a rename table that is not empty, every line of the
\* map file whose parsed address is a key of the table has its symbol
\* replaced by the table's name, the first line and a last line without a
\* newline included; the map file "80010000 old_name\n" with the piped line
\* "new_name 80010000" becomes "80010000 new_name\n" and
\* "old_name -> new_name" is printed.
C1_EveryKeyedLineRenamed ==
    /\ (pc = "done" /\ DOMAIN updates # {}) =>
          LET ol == SplitLines(orig)
              nl == SplitLines(file)
          IN  /\ Len(nl) = Len(ol)
              /\ \A k \in 1..Len(ol) : Keyed(ol[k]) => nl[k] = Renamed(ol[k])
    /\ (pc = "done" /\ orig = M_ex \o NL /\ piped = <<E_piped>>) =>
          /\ file = T_8001 \o T_sp \o W_new_name \o NL
          /\ printed = << <<W_old_name, W_new_name>> >>

\* C2: update changes only bytes of the parsed symbol of lines whose parsed
\* address is a key of the rename table: a line that parses to None or whose
\* address is no key is left as it was, in a replaced line the bytes before
\* and behind the symbol are left as they were, and the lines stay as many
\* and in the same order.
C2_Frame ==
    /\ pc = "done" =>
          LET ol == SplitLines(orig)
              nl == SplitLines(file)
          IN  /\ Len(nl) = Len(ol)
              /\ \A k \in 1..Len(ol) :
                    IF ~Keyed(ol[k]) THEN nl[k] = ol[k]
                    ELSE LET sr == line_symaddr(ol[k]).symbol_range
                             tail == Len(ol[k]) - sr.end
                         IN  /\ Len(nl[k]) >= sr.start + tail
                             /\ SubSeq(nl[k], 1, sr.start) = SubSeq(ol[k], 1, sr.start)
                             /\ SubSeq(nl[k], Len(nl[k]) - tail + 1, Len(nl[k]))
                                    = SubSeq(ol[k], sr.end + 1, Len(ol[k]))

\* a file was rewritten with one line renamed to a name of another length, a
\* keyed line, a line with another address and a line with no address
C2_Witness ==
    /\ pc = "done" /\ Len(edits) >= 1 /\ Len(file) # Len(orig)
    /\ \E p \in LineStarts(orig) :
          /\ line_symaddr(LineAt(orig, p)).some
          /\ ~Keyed(LineAt(orig, p))
    /\ \E p \in LineStarts(orig) :
          /\ LineAt(orig, p) # <<>>
          /\ ~line_symaddr(LineAt(orig, p)).some

\* C7: update prints one pair per replacement it makes, the symbol the line
\* held before the replacement and the table's name for the line's address,
\* and prints them from the end of the file to its start: the first pair is
\* for the keyed line nearest the end, every later pair for an earlier line.
C7_ReportsEndToStart ==
    /\ Len(printed) = Len(edits)
    /\ \A k \in 1..Len(edits) :
          LET e == edits[k]
              info == line_symaddr(LineAt(orig, e.line_start))
          IN  /\ e.line_start \in LineStarts(orig)
              /\ Keyed(LineAt(orig, e.line_start))
              /\ printed[k] = <<info.symbol, updates[info.addr]>>
              /\ e.text = updates[info.addr]
              /\ e.range = [start |-> e.line_start + info.symbol_range.start,
                            end |-> e.line_start + info.symbol_range.end]
              /\ k > 1 => e.line_start < edits[k - 1].line_start
    /\ (pc = "done" /\ Len(edits) >= 1) =>
          \A p \in LineStarts(orig) :
              p > edits[1].line_start => ~Keyed(LineAt(orig, p))

\* two replacements were printed, the first of a length other than its name's
C7_Witness ==
    /\ pc = "done" /\ Len(printed) >= 2
    /\ Len(printed[1][1]) # Len(printed[1][2])

\* C8: at the start of every iteration of the backward scan the unprocessed
\* prefix mapfile[..i] is the same prefix of the text read, whatever the
\* lengths of the names put in behind it, and the range line_start + range
\* of the current line is, within the buffer, the symbol of that line.
C8_PrefixUntouched ==
    pc = "scan" =>
        /\ i <= Len(mapfile) /\ i <= Len(orig)
        /\ SubSeq(mapfile, 1, i) = SubSeq(orig, 1, i)
        /\ \A p \in LineStarts(orig) :
              (p <= i /\ NextNewline(orig, p) >= i) =>
                  LET info == line_symaddr(Slice(orig, p, i))
                  IN  info.some =>
                        /\ p + info.symbol_range.end <= Len(mapfile)
                        /\ Slice(mapfile, p + info.symbol_range.start,
                                 p + info.symbol_range.end) = info.symbol

\* the scan is at a keyed line, behind it a replacement has changed the length
\* of the buffer
C8_Witness ==
    /\ pc = "scan" /\ Len(edits) >= 1 /\ Len(mapfile) # Len(orig)
    /\ rsplit_once(mapfile, i) # -1
    /\ Keyed(Slice(mapfile, rsplit_once(mapfile, i) + 1, i))

\* C10 as stated: a second run with the same rename table leaves the file
\* text as the first run left it.
C10_Idempotent == (pc = "done" /\ rerun) => file = orig

\* every line with a keyed address in the text the first run read parses to
\* the same address in the text it wrote
AddressesKept ==
    LET pl == SplitLines(prev)
        ol == SplitLines(orig)
    IN  /\ Len(pl) = Len(ol)
        /\ \A k \in 1..Len(pl) :
              Keyed(pl[k]) =>
                  LET info == line_symaddr(ol[k])
                  IN  info.some /\ info.addr = line_symaddr(pl[k]).addr

\* C10 amended: a second run with the same rename table leaves the file text
\* as the first run left it whenever every line the first run renamed parses
\* to the same address after the rename as before it.
C10_IdempotentIfAddressesKept ==
    (pc = "done" /\ rerun) => (file = orig \/ ~AddressesKept)

\* the first run renamed a symbol, the second run replaced it by itself
C10_Witness ==
    /\ pc = "done" /\ rerun /\ AddressesKept
    /\ prev # orig /\ Len(edits) >= 1 /\ file = orig

----------------------------------------------------------------------------
(* Properties of the parser *)

HexChars == {"0", "1", "2", "3", "4", "5", "6", "7", "8", "9",
             "a", "b", "c", "d", "e", "f", "A", "B", "C", "D", "E", "F"}

Nibble(c) ==
    CASE c = "0" -> 0 [] c = "1" -> 1 [] c = "2" -> 2 [] c = "3" -> 3
      [] c = "4" -> 4 [] c = "5" -> 5 [] c = "6" -> 6 [] c = "7" -> 7
      [] c = "8" -> 8 [] c = "9" -> 9
      [] c \in {"a", "A"} -> 10 [] c \in {"b", "B"} -> 11 [] c \in {"c", "C"} -> 12
      [] c \in {"d", "D"} -> 13 [] c \in {"e", "E"} -> 14 [] c \in {"f", "F"} -> 15

\* the 8 bytes at offset w of l are hexadecimal digits
AllHexAt(l, w) == w + 8 <= Len(l) /\ \A k \in 1..8 : l[w + k] \in HexChars

\* the number written by 4 hexadecimal digits at offset w
Half(l, w) == Nibble(l[w + 1]) * 4096 + Nibble(l[w + 2]) * 256
              + Nibble(l[w + 3]) * 16 + Nibble(l[w + 4])

\* the 8 digits at offset w write a number of [0x80000000, 0x81800000):
\* they read 80...... or 81[0-7].....
QualifiesAt(l, w) ==
    /\ AllHexAt(l, w)
    /\ l[w + 1] = "8"
    /\ \/ l[w + 2] = "0"
       \/ l[w + 2] = "1" /\ l[w + 3] \in {"0", "1", "2", "3", "4", "5", "6", "7"}

IdentStart(c) == c \in Lower \cup Upper \cup {"_"}
IdentChar(c) == c \in Lower \cup Upper \cup Digit \cup {"_"}

\* C3: the parsed address is the value of the leftmost 8-byte window of hex
\* digits whose value lies in [0x80000000, 0x81800000); earlier all-hex
\* windows out of that range are passed over; a line with no such window
\* parses to None; "7FFFFFFF tag" and "81800000 tag" parse to None and
\* "80000000 tag" to the address 0x80000000.
C3_LeftmostWindow ==
    ppc = "ret" =>
        /\ pres.some =>
              /\ QualifiesAt(pline, pres.addr_range.start)
              /\ \A w \in 0..(pres.addr_range.start - 1) : ~QualifiesAt(pline, w)
              /\ pres.addr_range.end = pres.addr_range.start + 8
              /\ pres.addr = [hi |-> Half(pline, pres.addr_range.start),
                              lo |-> Half(pline, pres.addr_range.start + 4)]
        /\ (\A w \in 0..Len(pline) : ~QualifiesAt(pline, w)) => pres = None
        /\ pline \in {E_7FFF, E_8180} => pres = None
        /\ pline = E_8000 => pres.some /\ pres.addr = [hi |-> 32768, lo |-> 0]

\* an address found behind an earlier window of 8 hex digits that is out of range
C3_Witness ==
    /\ ppc = "ret" /\ pres.some
    /\ \E w \in 0..(pres.addr_range.start - 1) : AllHexAt(pline, w)

\* C4 as stated: with a 0x prefix right before the address, the parsed symbol
\* is the x followed by the 8 digits of the address.
C4_SymbolIsXAddress ==
    (/\ ppc = "ret" /\ pres.some
     /\ pres.addr_range.start >= 2
     /\ Slice(pline, pres.addr_range.start - 2, pres.addr_range.start) = T_0x
     /\ pres.symbol_range.start >= pres.addr_range.start - 2)
    => /\ pres.symbol_range.start = pres.addr_range.start - 1
       /\ pres.symbol = <<"x">> \o Slice(pline, pres.addr_range.start, pres.addr_range.end)

\* C4 amended: with a 0x prefix right before the address, the hex-skip loop
\* started by the digit 0 reads the x that ends it, so the x is never the
\* start of the symbol: a symbol that does not start before the prefix starts
\* after the address and the character behind it; "0x80010000 foo" parses to
\* the symbol "foo".
C4_XIsSkipped ==
    /\ (/\ ppc = "ret" /\ pres.some
        /\ pres.addr_range.start >= 2
        /\ Slice(pline, pres.addr_range.start - 2, pres.addr_range.start) = T_0x
        /\ pres.symbol_range.start >= pres.addr_range.start - 2)
       => pres.symbol_range.start > pres.addr_range.end
    /\ (ppc = "ret" /\ pline = E_0x)
       => pres.some /\ pres.symbol = T_foo /\ pres.symbol_range = [start |-> 11, end |-> 14]

C4_Witness ==
    /\ ppc = "ret" /\ pline = E_0x /\ pres.some
    /\ pres.addr_range.start = 2 /\ pres.symbol = T_foo

\* C5: a parsed symbol is not empty, starts with an ASCII letter or an
\* underscore, is made of ASCII letters, digits and underscores, is followed
\* by no such character, is the slice of the line at its range, and both
\* ranges lie within the line; the symbol is found before or after the
\* address: "80010000 my_symbol_name" parses to 0x80010000 and
\* "my_symbol_name", "new_name 80010000" to "new_name".
C5_SymbolShape ==
    ppc = "ret" =>
        /\ pres.some =>
              LET sr == pres.symbol_range
                  ar == pres.addr_range
              IN  /\ pres.symbol # <<>>
                  /\ IdentStart(pres.symbol[1])
                  /\ \A k \in 1..Len(pres.symbol) : IdentChar(pres.symbol[k])
                  /\ sr.end < Len(pline) => ~IdentChar(pline[sr.end + 1])
                  /\ 0 <= sr.start /\ sr.start < sr.end /\ sr.end <= Len(pline)
                  /\ Len(pres.symbol) = sr.end - sr.start
                  /\ \A k \in 1..Len(pres.symbol) : pres.symbol[k] = pline[sr.start + k]
                  /\ 0 <= ar.start /\ ar.end = ar.start + 8 /\ ar.end <= Len(pline)
        /\ pline = E_map =>
              pres.some /\ pres.addr = [hi |-> 32769, lo |-> 0]
                        /\ pres.symbol = W_my_symbol_name
        /\ pline = E_piped =>
              pres.some /\ pres.addr = [hi |-> 32769, lo |-> 0]
                        /\ pres.symbol = W_new_name

\* a symbol with a digit in it, found behind the address
C5_Witness ==
    /\ ppc = "ret" /\ pres.some
    /\ pres.symbol_range.start > pres.addr_range.end
    /\ \E k \in 1..Len(pres.symbol) : pres.symbol[k] \in Digit
    /\ pres.symbol_range.end < Len(pline)

----------------------------------------------------------------------------
(* take_while, take_whitespace, take_c_token: the offset the cursor is left at *)

\* take_while(src, f) with the cursor at offset p; f is the set of the
\* characters it accepts.  The slice returned is s[p .. the offset returned].
\* loop[q] is the loop of take_while with the cursor at offset q.
take_while(s, p, f) ==
    LET loop[q \in 0..Len(s)] ==
            IF q < Len(s) /\ s[q + 1] \in f THEN loop[q + Width(s[q + 1])]
            ELSE q
    IN  loop[p]

WhitespaceChars == {c \in Chars : is_ascii_whitespace(c)}
TokenStartChars == {c \in Chars : is_ascii_alphabetic(c) \/ c = "_"}
TokenChars == {c \in Chars : is_ascii_alphanumeric(c) \/ c = "_"}

take_whitespace(s, p) == take_while(s, p, WhitespaceChars)

take_c_token(s, p) ==
    IF p < Len(s) /\ s[p + 1] \in TokenStartChars
    THEN take_while(s, p + Width(s[p + 1]), TokenChars)
    ELSE p

----------------------------------------------------------------------------
(* extract: the scan loop over one file's text *)

K_if == <<"i", "f">>
K_for == <<"f", "o", "r">>
K_while == <<"w", "h", "i", "l", "e">>
K_return == <<"r", "e", "t", "u", "r", "n">>
K_switch == <<"s", "w", "i", "t", "c", "h">>
K_case == <<"c", "a", "s", "e">>
K_sizeof == <<"s", "i", "z", "e", "o", "f">>
K_alignof == <<"a", "l", "i", "g", "n", "o", "f">>
K_attribute == <<"_", "_", "a", "t", "t", "r", "i", "b", "u", "t", "e", "_", "_">>

\* the names the match on fn_name filters
Builtins == {K_if, K_for, K_while, K_return, K_switch, K_case, K_sizeof,
             K_alignof, K_attribute}

\* find_fn without the filter of function pointers and typedefs
find_fn_nostar(s, p) ==
    LET p1 == take_whitespace(s, p)
        p2 == take_c_token(s, p1)
        fn_name == [name |-> Slice(s, p1, p2), start |-> p1, end |-> p2]
        p3 == take_whitespace(s, p2)
        p4 == take_while(s, p3, {"("})
        p5 == take_whitespace(s, p4)
    IN  IF p2 = p1 THEN [cursor |-> p2, emit |-> FALSE, fn_name |-> fn_name]
        ELSE IF p4 = p3 THEN [cursor |-> p4, emit |-> FALSE, fn_name |-> fn_name]
        ELSE IF fn_name.name \in Builtins
             THEN [cursor |-> p5, emit |-> FALSE, fn_name |-> fn_name]
        ELSE [cursor |-> p5, emit |-> TRUE, fn_name |-> fn_name]

\* the block 'find_fn with the cursor at offset p, up to the write: the
\* offset the cursor is left at, whether fn_name is written, and fn_name (a
\* slice of s, with the range it covers)
find_fn(s, p) ==
    LET p1 == take_whitespace(s, p)
        p2 == take_c_token(s, p1)
        fn_name == [name |-> Slice(s, p1, p2), start |-> p1, end |-> p2]
        p3 == take_whitespace(s, p2)
        p4 == take_while(s, p3, {"("})
        p5 == take_whitespace(s, p4)
        p6 == take_while(s, p5, {"*"})
    IN  IF p2 = p1 THEN [cursor |-> p2, emit |-> FALSE, fn_name |-> fn_name]
        ELSE IF p4 = p3 THEN [cursor |-> p4, emit |-> FALSE, fn_name |-> fn_name]
        ELSE IF p6 # p5 THEN [cursor |-> p6, emit |-> FALSE, fn_name |-> fn_name]
        ELSE IF fn_name.name \in Builtins
             THEN [cursor |-> p6, emit |-> FALSE, fn_name |-> fn_name]
        ELSE [cursor |-> p6, emit |-> TRUE, fn_name |-> fn_name]

\* skip_to_symbol that skips nothing
skip_to_symbol_stay(s, p) == p

\* "skip until next symbol": the take_while that ends an iteration
skip_to_symbol(s, p) == take_while(s, p, Chars \ TokenStartChars)

X_f1 == <<"f", "1">>
X_lp == <<"(">>
X_rp == <<")">>
X_star == <<"*">>
X_1 == <<"1">>
X_nl == <<"\n">>
X_x == <<"x">>
X_void == <<"v", "o", "i", "d">>
X_callback == <<"c", "a", "l", "l", "b", "a", "c", "k">>
X_int == <<"i", "n", "t">>

SrcTokens == {K_if, X_f1, T_sp, X_lp, X_rp, X_star, X_1, X_nl, T_eacute}

\* "if (x)" and "void (*callback)(int)"
E_if == K_if \o T_sp \o X_lp \o X_x \o X_rp
E_void == X_void \o T_sp \o X_lp \o X_star \o X_callback \o X_rp \o X_lp \o X_int \o X_rp

\* "if(f1(1)) void (*callback)(int)"
E_mix == K_if \o X_lp \o X_f1 \o X_lp \o X_1 \o X_rp \o X_rp \o T_sp \o E_void

SrcTexts == {Concat(ts) : ts \in SeqsUpTo(SrcTokens, MaxSrcTokens)}
                \cup {E_if, E_void, E_mix}
                \cup {k \o X_lp \o X_x \o X_rp : k \in Builtins}
                \cup {k \o X_x \o X_lp \o X_rp : k \in Builtins}

InitExtract ==
    /\ src = <<>>
    /\ pos = 0
    /\ out = <<>>
    /\ epc = "read"
    /\ InitIdleUpdate /\ InitIdleParse

\* read_to_string(&path) and src.char_indices(): the text of the file
ExtractRead ==
    /\ epc = "read"
    /\ src' \in SrcTexts
    /\ pos' = 0
    /\ epc' = "loop"
    /\ UNCHANGED <<out, updateVars, parseVars>>

\* one iteration of `while !src_iter.as_str().is_empty()` whose write, if
\* any, succeeds
ExtractIter ==
    /\ epc = "loop"
    /\ pos < Len(src)
    /\ out' = (LET r == find_fn(src, pos)
               IN  IF r.emit THEN Append(out, r.fn_name) ELSE out)
    /\ pos' = skip_to_symbol(src, find_fn(src, pos).cursor)
    /\ UNCHANGED <<src, epc, updateVars, parseVars>>

\* an iteration whose write to stdout fails: extract returns, with SUCCESS
\* on a broken pipe and with FAILURE on any other error
ExtractWriteErr ==
    /\ epc = "loop"
    /\ pos < Len(src)
    /\ find_fn(src, pos).emit
    /\ pos' = find_fn(src, pos).cursor
    /\ epc' \in {"broken_pipe", "write_failed"}
    /\ UNCHANGED <<src, out, updateVars, parseVars>>

\* the loop condition fails
ExtractEnd ==
    /\ epc = "loop"
    /\ ~(pos < Len(src))
    /\ epc' = "done"
    /\ UNCHANGED <<src, pos, out, updateVars, parseVars>>

NextExtract == ExtractRead \/ ExtractIter \/ ExtractWriteErr \/ ExtractEnd

SpecExtract == InitExtract /\ [][NextExtract]_vars

\* the process is scheduled until it returns
SpecExtractFair == SpecExtract /\ WF_vars(NextExtract)

----------------------------------------------------------------------------
(* Properties of the extractor *)

ReservedKeywords ==
    {<<"i", "f">>, <<"f", "o", "r">>, <<"w", "h", "i", "l", "e">>,
     <<"r", "e", "t", "u", "r", "n">>, <<"s", "w", "i", "t", "c", "h">>,
     <<"c", "a", "s", "e">>, <<"s", "i", "z", "e", "o", "f">>,
     <<"a", "l", "i", "g", "n", "o", "f">>,
     <<"_", "_", "a", "t", "t", "r", "i", "b", "u", "t", "e", "_", "_">>}

IsSpace(c) == c \in {" ", "\t", "\n", "\f", "\r"}

\* behind offset e of s come optional whitespace, `(`, optional whitespace, `*`
StarSite(s, e) ==
    \E a \in e..(Len(s) - 1) : \E b \in (a + 1)..(Len(s) - 1) :
        /\ \A k \in (e + 1)..a : IsSpace(s[k])
        /\ s[a + 1] = "("
        /\ \A k \in (a + 2)..b : IsSpace(s[k])
        /\ s[b + 1] = "*"

\* C6: no reserved keyword is ever emitted, and no identifier is emitted from
\* a site where it is followed by optional whitespace, `(`, optional
\* whitespace and `*`; "if (x)" never emits "if" and "void (*callback)(int)"
\* never emits "void".
C6_NoKeywordNoStarSite ==
    /\ \A k \in 1..Len(out) :
          /\ out[k].name \notin ReservedKeywords
          /\ out[k].name = Slice(src, out[k].start, out[k].end)
          /\ ~StarSite(src, out[k].end)
    /\ src = E_if => \A k \in 1..Len(out) : out[k].name # <<"i", "f">>
    /\ src = E_void => \A k \in 1..Len(out) : out[k].name # <<"v", "o", "i", "d">>

\* the scan is over a text with a keyword call and with a star site behind
\* an identifier, and has emitted a symbol
C6_Witness ==
    /\ epc = "done" /\ Len(out) > 0
    /\ \E e \in 1..Len(src) : IdentChar(src[e]) /\ StarSite(src, e)
    /\ \E e \in 2..Len(src) : Slice(src, e - 2, e) = <<"i", "f">> /\ e < Len(src)
                                  /\ src[e + 1] = "("

\* C9: an iteration that starts with text left moves the cursor forward by
\* at least one character, the cursor never moves backward, the loop is left
\* through its condition exactly when no text is left, and the scan ends.
C9_ScanTerminates ==
    /\ [][/\ (epc = "loop" /\ pos < Len(src)) => pos' > pos
          /\ pos' >= pos /\ pos' <= Len(src')
          /\ (epc = "loop" /\ epc' = "done") => pos = Len(src)
          /\ (epc = "loop" /\ pos = Len(src)) => epc' = "done"]_vars
    /\ <>(epc \notin {"read", "loop"})

\* the scan of a text of four bytes or more was left through the loop
\* condition, with a symbol emitted on the way
C9_Witness == epc = "done" /\ pos = Len(src) /\ Len(src) >= 4 /\ Len(out) >= 1

====
